---- MODULE Spec2Model ----
(***************************************************************************)
(* redcached: a memcached text-protocol front end that keeps its data in   *)
(* a Redis backend.  The model covers the connection serve loop            *)
(* (rcdaemon/client.go, Client.Serve) and the command handlers with the    *)
(* expiration translation (handlers: expirationParser, GetHandler,         *)
(* SetHandler, AddHandler, DeleteHandler, IncrHandler, DecrHandler,        *)
(* FlushAllHandler, VersionHandler).                                       *)
(*                                                                         *)
(* The clock is read in seconds and nanoseconds; durations are counted in  *)
(* nanoseconds, as time.Duration does.  The 64-bit integers of the         *)
(* expirations, instants and durations are kept as tuples of limbs, see    *)
(* below.  Byte strings are TLA+ strings; a command name on the wire is a  *)
(* sequence of characters so that strings.ToLower can be computed          *)
(* character by character.                                                 *)
(***************************************************************************)
EXTENDS Integers, Sequences, FiniteSets, TLC

VARIABLES
    now,      \* wall clock: the seconds since the epoch of time.Now()
    nsec,     \* wall clock: the nanoseconds within the second
    store,    \* the Redis backend: key -> [has, val, exp]
    pc,       \* per connection: position of Serve
    req,      \* per connection: the request decoded last (req)
    res,      \* per connection: the response under construction (res)
    herr,     \* per connection: the handler's returned error ("" is nil)
    gi,       \* per connection: GetHandler's loop index into req.Keys
    exp,      \* per connection: the result of expirationParser in Set/Add
    blog,     \* per connection: backend calls made for the current request
    nread,    \* per connection: number of ReadRequest calls made
    out,      \* per connection: the numbers of the requests answered, in
              \* the order of the writes to the socket
    wire,     \* per connection: the response written and flushed last, until
              \* the peer sends its next request
    closes,   \* per connection: number of conn.Close() calls
    ret       \* per connection: what Serve returned ("running" before)

vars == <<now, nsec, store, pc, req, res, herr, gi, exp, blog, nread, out,
          wire, closes, ret>>

-----------------------------------------------------------------------------
(* Bounds of the model *)

\* ReadRequest calls per connection
MaxReads == 2
\* clock ticks
MaxTicks == 3
\* the second the clock shows at start
Now0 == 2592002
\* magnitude of the integers the backend can parse in the model
MaxNum == 40
\* half-width of the ranges of raw expirations and clock values around the
\* boundaries in the expirationParser specification
TTLSpan == 3

\* 30 days in seconds: above it an expiration is an epoch
Threshold == 2592000

Keys == {"k1", "k2"}

-----------------------------------------------------------------------------
(* Integers of 64 bits and more.  The tuple <<l1, l2, l3, l4>> stands for  *)
(* l1 + l2 * Base + l3 * Base^2 + l4 * Base^3; its limbs are all >= 0 or   *)
(* all <= 0 and smaller than Base in magnitude, so that every integer has  *)
(* one tuple.  Base is the number of nanoseconds in a second: of a         *)
(* duration or an instant in nanoseconds l1 is the nanoseconds within the  *)
(* second and <<l2, l3, l4>> the seconds.                                  *)

Base == 1000000000

Million == Base \div 1000

\* quotient and remainder of a limb, rounded towards zero as Go's / and %
Quot(x, m) == IF x >= 0 THEN x \div m ELSE 0 - ((0 - x) \div m)

Rem(x, m) == IF x >= 0 THEN x % m ELSE 0 - ((0 - x) % m)

Neg(a) == <<0 - a[1], 0 - a[2], 0 - a[3], 0 - a[4]>>

\* the carry out of a limb sum x and what stays in the limb
Floor(x) == IF x >= 0 THEN x \div Base ELSE 0 - 1 - ((0 - x - 1) \div Base)

Mod(x) == IF x >= 0 THEN x % Base ELSE Base - 1 - ((0 - x - 1) % Base)

Carry(a) ==
    LET x2 == a[2] + Floor(a[1])
        x3 == a[3] + Floor(x2)
    IN  <<Mod(a[1]), Mod(x2), Mod(x3), a[4] + Floor(x3)>>

\* the tuple of the integer that the limb sums a stand for
Norm(a) == IF Carry(a)[4] >= 0 THEN Carry(a) ELSE Neg(Carry(Neg(a)))

\* the tuple of a small integer
Wide(n) == Norm(<<n, 0, 0, 0>>)

Zero == Wide(0)

Add(a, b) == Norm(<<a[1] + b[1], a[2] + b[2], a[3] + b[3], a[4] + b[4]>>)

Minus(a, b) == Norm(<<a[1] - b[1], a[2] - b[2], a[3] - b[3], a[4] - b[4]>>)

Less(a, b) ==
    \/ a[4] < b[4]
    \/ a[4] = b[4] /\ a[3] < b[3]
    \/ a[4] = b[4] /\ a[3] = b[3] /\ a[2] < b[2]
    \/ a[4] = b[4] /\ a[3] = b[3] /\ a[2] = b[2] /\ a[1] < b[1]

Leq(a, b) == a = b \/ Less(a, b)

\* a * Base, for a below Base^3 in magnitude
MulBase(a) == <<0, a[1], a[2], a[3]>>

\* a / Base and a / 1,000,000, rounded towards zero
DivBase(a) == <<a[2], a[3], a[4], 0>>

DivMillion(a) ==
    <<Quot(a[1], Million) + 1000 * Rem(a[2], Million),
      Quot(a[2], Million) + 1000 * Rem(a[3], Million),
      Quot(a[3], Million) + 1000 * Rem(a[4], Million),
      Quot(a[4], Million)>>

\* a * 1,000,000, for a below Base^3 in magnitude
MulMillion(a) ==
    <<Million * Rem(a[1], 1000),
      Million * Rem(a[2], 1000) + Quot(a[1], 1000),
      Million * Rem(a[3], 1000) + Quot(a[2], 1000),
      Million * Rem(a[4], 1000) + Quot(a[3], 1000)>>

\* math.MaxInt64, math.MinInt64 and 2^64
MaxInt64 == <<854775807, 223372036, 9, 0>>

MinInt64 == <<0 - 854775808, 0 - 223372036, 0 - 9, 0>>

TwoTo64 == <<709551616, 446744073, 18, 0>>

\* the int64 that an int64 operation with the exact result a yields
Wrap(a) ==
    IF Less(MaxInt64, a) THEN Minus(a, TwoTo64)
    ELSE IF Less(a, MinInt64) THEN Add(a, TwoTo64)
    ELSE a

-----------------------------------------------------------------------------
(* strings.ToLower.  A character outside ASCII is written as its code      *)
(* point, a byte that is no UTF-8 as its value.                            *)

\* capital letters and their lower-case letters (unicode.ToLower): ASCII,
\* Latin-1, and one each of Latin Extended-A, Greek, Cyrillic and the
\* letterlike symbols
UpperChars == <<"A","B","C","D","E","F","G","H","I","J","K","L","M","N","O",
                "P","Q","R","S","T","U","V","W","X","Y","Z","U+00C0",
                "U+00C1","U+00C2","U+00C3","U+00C4","U+00C5","U+00C6",
                "U+00C7","U+00C8","U+00C9","U+00CA","U+00CB","U+00CC",
                "U+00CD","U+00CE","U+00CF","U+00D0","U+00D1","U+00D2",
                "U+00D3","U+00D4","U+00D5","U+00D6","U+00D8","U+00D9",
                "U+00DA","U+00DB","U+00DC","U+00DD","U+00DE","U+0130",
                "U+03A9","U+0410","U+212A">>

LowerChars == <<"a","b","c","d","e","f","g","h","i","j","k","l","m","n","o",
                "p","q","r","s","t","u","v","w","x","y","z","U+00E0",
                "U+00E1","U+00E2","U+00E3","U+00E4","U+00E5","U+00E6",
                "U+00E7","U+00E8","U+00E9","U+00EA","U+00EB","U+00EC",
                "U+00ED","U+00EE","U+00EF","U+00F0","U+00F1","U+00F2",
                "U+00F3","U+00F4","U+00F5","U+00F6","U+00F8","U+00F9",
                "U+00FA","U+00FB","U+00FC","U+00FD","U+00FE","i","U+03C9",
                "U+0430","k">>

\* bytes that decode to no character: each becomes U+FFFD
InvalidBytes == {"0xC0", "0xFF"}

LowerChar(ch) ==
    IF \E i \in 1..Len(UpperChars) : UpperChars[i] = ch
    THEN LowerChars[CHOOSE i \in 1..Len(UpperChars) : UpperChars[i] = ch]
    ELSE IF ch \in InvalidBytes THEN "U+FFFD"
    ELSE ch

RECURSIVE Join(_)
Join(s) == IF s = <<>> THEN "" ELSE s[1] \o Join(Tail(s))

\* identity on the characters: a case-sensitive comparison
ToLowerKeepCase(s) == Join(s)

ToLower(s) == Join([i \in 1..Len(s) |-> LowerChar(s[i])])

-----------------------------------------------------------------------------
(* strconv.FormatInt and the backend's parse of a stored decimal *)

FormatInt(n) == ToString(n)

IsInt(s) == \E n \in (0 - MaxNum)..MaxNum : ToString(n) = s

ParseInt(s) == CHOOSE n \in (0 - MaxNum)..MaxNum : ToString(n) = s

-----------------------------------------------------------------------------
(* Package time, as expirationParser uses it.  A Time keeps the seconds    *)
(* since January 1 of year 1 in an int64, and the nanoseconds within the   *)
(* second; here its seconds are counted from the epoch, as Time.Unix       *)
(* reports them.  A Duration is an int64 of nanoseconds.                   *)

\* time.Second and time.Millisecond
Second == MulBase(Wide(1))

Millisecond == Wide(Million)

\* the seconds from year 1 to the epoch, 62,135,596,800 (unixToInternal)
unixToInternal == <<135596800, 62, 0, 0>>

\* time.Unix(sec, 0): the int64 addition sec + unixToInternal wraps around,
\* which puts a second beyond the last one 2^64 seconds back
Unix(sec) ==
    [sec |-> Minus(Wrap(Add(sec, unixToInternal)), unixToInternal),
     nsec |-> 0]

\* time.Now()
Now == [sec |-> Wide(now), nsec |-> nsec]

\* t.Before(u)
Before(t, u) == Less(t.sec, u.sec) \/ (t.sec = u.sec /\ t.nsec < u.nsec)

\* t.Sub(u): the Duration t - u, or the longest (shortest) Duration when
\* t - u does not fit an int64 of nanoseconds
Sub(t, u) ==
    LET d == Add(MulBase(Minus(t.sec, u.sec)), Wide(t.nsec - u.nsec))
    IN  IF Leq(MinInt64, d) /\ Leq(d, MaxInt64) THEN d
        ELSE IF Before(t, u) THEN MinInt64
        ELSE MaxInt64

-----------------------------------------------------------------------------
(* expirationParser *)

ErrNegative == "Expiration cannot be negative"

TTL(secs, unlimited, past, err) ==
    [secs |-> secs, unlimited |-> unlimited, past |-> past, err |-> err]

NoTTL == TTL(Zero, FALSE, FALSE, "")

\* the epoch branch taken from the threshold itself on
expirationParserOffByOne(t, tnow) ==
    IF t = Zero THEN TTL(Zero, TRUE, FALSE, "")
    ELSE IF Leq(Wide(Threshold), t)
         THEN TTL(Sub(Unix(t), tnow), FALSE,
                  Leq(Sub(Unix(t), tnow), Zero), "")
    ELSE IF Less(t, Zero) THEN TTL(Zero, FALSE, FALSE, ErrNegative)
    ELSE TTL(MulBase(t), FALSE, FALSE, "")

\* t is req.Exptime, tnow what time.Now() returns
expirationParser(t, tnow) ==
    IF t = Zero THEN TTL(Zero, TRUE, FALSE, "")
    ELSE IF Less(Wide(Threshold), t)
         THEN TTL(Sub(Unix(t), tnow), FALSE,
                  Leq(Sub(Unix(t), tnow), Zero), "")
    ELSE IF Less(t, Zero) THEN TTL(Zero, FALSE, FALSE, ErrNegative)
    ELSE TTL(MulBase(t), FALSE, FALSE, "")

-----------------------------------------------------------------------------
(* The Redis backend as the handlers use it (gopkg.in/redis.v3).  Every    *)
(* call may fail (fail = TRUE): the store is then left alone, the error is *)
(* set and Val() is the zero value.  The backend keeps the expiry of a key *)
(* as an instant of its clock, which counts milliseconds; instants are     *)
(* nanoseconds since the epoch.                                            *)

ErrBackend == "backend unavailable"
ErrNotInt == "ERR value is not an integer or out of range"
ErrExpire == "ERR invalid expire time in set"
ErrOverflow == "ERR increment or decrement would overflow"

\* a key without expiry (Redis reports its TTL as -1)
NoExpiry == Wide(0 - 1)

Absent == [has |-> FALSE, val |-> "", exp |-> NoExpiry]

Entry(v, e) == [has |-> TRUE, val |-> v, exp |-> e]

EmptyStore == [k \in Keys |-> Absent]

\* the clock of the backend: the wall clock cut to milliseconds
Mstime == Norm(<<nsec - Rem(nsec, Million), now, 0, 0>>)

\* the client sends a duration as milliseconds when it is shorter than a
\* second or no whole number of seconds, as seconds else
usePrecise(dur) == Less(dur, Second) \/ dur[1] # 0

\* int64(dur / time.Millisecond) and int64(dur / time.Second)
formatMs(dur) == DivMillion(dur)

formatSec(dur) == DivBase(dur)

\* the time to live that SET ... PX ms or SET ... EX s carries for the
\* duration d, in nanoseconds
Lifetime(d) ==
    IF usePrecise(d) THEN MulMillion(formatMs(d)) ELSE MulBase(formatSec(d))

\* the instant a key set with the duration d at the instant t expires
ExpireAt(d, t) == Add(t, Lifetime(d))

\* entries whose expiry instant has passed are gone
Purge(s, t) ==
    [k \in Keys |-> IF s[k].has /\ s[k].exp # NoExpiry /\ Less(s[k].exp, t)
                    THEN Absent ELSE s[k]]

BackendGet(s, k, fail) ==
    IF fail THEN [store |-> s, err |-> ErrBackend, nil |-> FALSE, val |-> ""]
    ELSE IF ~s[k].has THEN [store |-> s, err |-> "", nil |-> TRUE, val |-> ""]
    ELSE [store |-> s, err |-> "", nil |-> FALSE, val |-> s[k].val]

\* Set: SET k v for a duration that is not positive, SET k v PX ms or
\* SET k v EX s else; the backend refuses a time to live of 0
BackendSet(s, k, v, d, t, fail) ==
    IF fail THEN [store |-> s, err |-> ErrBackend]
    ELSE IF Leq(d, Zero)
    THEN [store |-> [s EXCEPT ![k] = Entry(v, NoExpiry)], err |-> ""]
    ELSE IF Lifetime(d) = Zero THEN [store |-> s, err |-> ErrExpire]
    ELSE [store |-> [s EXCEPT ![k] = Entry(v, ExpireAt(d, t))], err |-> ""]

\* SetNX: SETNX k v for the duration 0, SET k v PX ms NX or SET k v EX s NX
\* else; the backend refuses a time to live that is not positive
BackendSetNX(s, k, v, d, t, fail) ==
    IF fail THEN [store |-> s, err |-> ErrBackend, val |-> FALSE]
    ELSE IF d # Zero /\ Leq(Lifetime(d), Zero)
    THEN [store |-> s, err |-> ErrExpire, val |-> FALSE]
    ELSE IF s[k].has THEN [store |-> s, err |-> "", val |-> FALSE]
    ELSE [store |-> [s EXCEPT ![k] =
                       Entry(v, IF d = Zero THEN NoExpiry ELSE ExpireAt(d, t))],
          err |-> "", val |-> TRUE]

\* Expire: EXPIRE k s with the whole seconds of d; a key whose new expiry
\* is not after the clock is removed
BackendExpire(s, k, d, t, fail) ==
    IF fail THEN [store |-> s, err |-> ErrBackend, val |-> FALSE]
    ELSE IF ~s[k].has THEN [store |-> s, err |-> "", val |-> FALSE]
    ELSE IF Leq(formatSec(d), Zero)
    THEN [store |-> [s EXCEPT ![k] = Absent], err |-> "", val |-> TRUE]
    ELSE [store |-> [s EXCEPT ![k].exp = Add(t, MulBase(formatSec(d)))],
          err |-> "", val |-> TRUE]

BackendDel(s, k, fail) ==
    IF fail THEN [store |-> s, err |-> ErrBackend, val |-> 0]
    ELSE [store |-> [s EXCEPT ![k] = Absent], err |-> "",
          val |-> IF s[k].has THEN 1 ELSE 0]

BackendExists(s, k, fail) ==
    IF fail THEN [store |-> s, err |-> ErrBackend, val |-> FALSE]
    ELSE [store |-> s, err |-> "", val |-> s[k].has]

\* INCRBY: a missing key counts from 0; the expiry of the key is kept; a
\* result outside the integers of the backend is refused
BackendIncrBy(s, k, n, fail) ==
    IF fail THEN [store |-> s, err |-> ErrBackend, val |-> 0]
    ELSE LET old == IF s[k].has THEN s[k].val ELSE "0"
         IN  IF ~IsInt(old)
             THEN [store |-> s, err |-> ErrNotInt, val |-> 0]
             ELSE IF ~IsInt(FormatInt(ParseInt(old) + n))
             THEN [store |-> s, err |-> ErrOverflow, val |-> 0]
             ELSE [store |-> [s EXCEPT ![k] =
                                Entry(FormatInt(ParseInt(old) + n), s[k].exp)],
                   err |-> "", val |-> ParseInt(old) + n]

\* the amount is added where it is to be taken away
BackendDecrByAdds(s, k, n, fail) == BackendIncrBy(s, k, n, fail)

BackendDecrBy(s, k, n, fail) == BackendIncrBy(s, k, 0 - n, fail)

BackendFlushAll(s, fail) ==
    IF fail THEN [store |-> s, err |-> ErrBackend]
    ELSE [store |-> EmptyStore, err |-> ""]

\* one entry of the per-request record of backend calls
Call(op, k, d, e) == [op |-> op, key |-> k, dur |-> d, err |-> e]
-----------------------------------------------------------------------------
(* Requests and responses (protocol.McRequest, protocol.McResponse) *)

\* keys of one GET
MaxKeys == 2

McRequest(cmd, key, keys, value, exptime, increment, noreply) ==
    [Command |-> cmd, Key |-> key, Keys |-> keys, Value |-> value,
     Exptime |-> exptime, Increment |-> increment, Noreply |-> noreply]

McValue(key, flags, data) == [Key |-> key, Flags |-> flags, Data |-> data]

McResponse == [Response |-> "", Values |-> <<>>]

NoRequest == McRequest(<<>>, "", <<>>, "", Zero, 0, FALSE)

KeyLists == UNION {[1..n -> Keys] : n \in 1..MaxKeys}

Values == {"7"}

\* req.Exptime: negative, none, relative, absolute before and after the clock
Exptimes ==
    {Wide(0 - 1), Zero, Wide(1), Wide(Threshold + 1), Wide(Now0 + 1)}

Increments == {1, 5}

\* a request with the no-reply flag set
NoReply(r) == [r EXCEPT !.Noreply = TRUE]

GetRequests(cmds) ==
    {McRequest(cmd, "", ks, "", Zero, 0, FALSE) :
        cmd \in cmds, ks \in KeyLists}

StoreRequests(cmds, keys, values, exps) ==
    {McRequest(cmd, k, <<>>, v, e, 0, FALSE) :
        cmd \in cmds, k \in keys, v \in values, e \in exps}

KeyRequests(cmds, keys) ==
    {McRequest(cmd, k, <<>>, "", Zero, 0, FALSE) :
        cmd \in cmds, k \in keys}

CountRequests(cmds, keys, incs) ==
    {McRequest(cmd, k, <<>>, "", Zero, n, FALSE) :
        cmd \in cmds, k \in keys, n \in incs}

BareRequests(cmds) ==
    {McRequest(cmd, "", <<>>, "", Zero, 0, FALSE) : cmd \in cmds}

CmdGet == <<"g","e","t">>
CmdSet == <<"s","e","t">>
CmdAdd == <<"a","d","d">>
CmdDelete == <<"d","e","l","e","t","e">>
CmdIncr == <<"i","n","c","r">>
CmdDecr == <<"d","e","c","r">>
CmdFlushAll == <<"f","l","u","s","h","_","a","l","l">>
CmdVersion == <<"v","e","r","s","i","o","n">>
CmdQuit == <<"q","u","i","t">>

\* commands that are not in the dispatch table: a lower-case and an
\* upper-case one, one with a capital outside ASCII and one with a byte
\* that is no UTF-8
UnknownCmds ==
    {<<"t","o","u","c","h">>, <<"Q","U","I","T","S">>,
     <<"G","U+00C9","T">>, <<"s","e","t","0xFF">>}

\* what strings.ToLower turns into "quit": the letter cases of quit, and
\* the capital I with a dot above (U+0130) for its i
QuitCmds ==
    {CmdQuit, <<"Q","U","I","T">>, <<"Q","u","i","t">>,
     <<"Q","U","U+0130","T">>}

\* what one connection may send where a single connection is served: every
\* command with every argument, and with the no-reply flag on one key
Requests ==
    GetRequests({CmdGet})
    \cup StoreRequests({CmdSet, CmdAdd}, Keys, Values, Exptimes)
    \cup KeyRequests({CmdDelete}, Keys)
    \cup CountRequests({CmdIncr, CmdDecr}, Keys, {5})
    \cup BareRequests({CmdFlushAll, CmdVersion} \cup UnknownCmds \cup QuitCmds)
    \cup {NoReply(r) : r \in
            {McRequest(<<"G","e","T">>, "", <<"k1">>, "", Zero, 0, FALSE)}
            \cup StoreRequests({CmdAdd, <<"S","E","T">>},
                                {"k1"}, Values,
                                {Wide(0 - 1), Zero, Wide(Threshold + 1)})
            \cup KeyRequests({CmdDelete}, {"k1"})
            \cup CountRequests({CmdIncr, CmdDecr}, {"k1"}, {5})
            \cup BareRequests({CmdFlushAll, CmdVersion,
                                <<"t","o","u","c","h">>})}

\* the dispatch table (Server.methods): lower-cased command name -> handler
methods ==
    [cmd \in {"get", "set", "add", "delete", "incr", "decr",
              "flush_all", "version"} |->
       CASE cmd = "get" -> "GetHandler"
         [] cmd = "set" -> "SetHandler"
         [] cmd = "add" -> "AddHandler"
         [] cmd = "delete" -> "DeleteHandler"
         [] cmd = "incr" -> "IncrHandler"
         [] cmd = "decr" -> "DecrHandler"
         [] cmd = "flush_all" -> "FlushAllHandler"
         [] cmd = "version" -> "VersionHandler"]
-----------------------------------------------------------------------------
(* Client.Serve: reading *)

Conns == DOMAIN pc
\* the response goes out twice
WriteTwice(c, n, r) ==
    /\ out' = [out EXCEPT ![c] = @ \o <<n, n>>]
    /\ wire' = [wire EXCEPT ![c] = r]

\* bw.WriteString(r.Protocol()); bw.Flush(), answering ReadRequest call n
Write(c, n, r) ==
    /\ out' = [out EXCEPT ![c] = Append(@, n)]
    /\ wire' = [wire EXCEPT ![c] = r]

\* the connection is closed on the error path only
ServeReturnCloseOnError(c, e) ==
    /\ pc' = [pc EXCEPT ![c] = "Closed"]
    /\ closes' = [closes EXCEPT ![c] = IF e = "nil" THEN @ ELSE @ + 1]
    /\ ret' = [ret EXCEPT ![c] = e]

\* the deferred conn.Close() runs when Serve returns
ServeReturn(c, e) ==
    /\ pc' = [pc EXCEPT ![c] = "Closed"]
    /\ closes' = [closes EXCEPT ![c] = @ + 1]
    /\ ret' = [ret EXCEPT ![c] = e]

\* ReadRequest returned a request: the quit check, then a fresh response
ServeRead(c, R) ==
    /\ pc[c] = "Reading"
    /\ nread[c] < MaxReads
    /\ \E r \in R :
         /\ nread' = [nread EXCEPT ![c] = @ + 1]
         /\ wire' = [wire EXCEPT ![c] = McResponse]
         /\ req' = [req EXCEPT ![c] = r]
         /\ IF ToLower(r.Command) = "quit"
            THEN /\ ServeReturn(c, "nil")
                 /\ UNCHANGED <<res, herr, gi, exp, blog>>
            ELSE /\ pc' = [pc EXCEPT ![c] = "Dispatching"]
                 /\ res' = [res EXCEPT ![c] = McResponse]
                 /\ UNCHANGED <<herr, gi, exp, blog, closes, ret>>
    /\ UNCHANGED <<now, nsec, store, out>>

ErrProtocol == "bad command line"
\* the protocol error ends Serve after the CLIENT_ERROR line
ServeReadProtocolErrorCloses(c) ==
    /\ pc[c] = "Reading"
    /\ nread[c] < MaxReads
    /\ nread' = [nread EXCEPT ![c] = @ + 1]
    /\ Write(c, nread[c] + 1,
             [McResponse EXCEPT !.Response = "CLIENT_ERROR " \o ErrProtocol])
    /\ ServeReturn(c, "error")
    /\ UNCHANGED <<now, nsec, store, req, res, herr, gi, exp, blog>>

\* ReadRequest returned a protocol.ProtocolError
ServeReadProtocolError(c) ==
    /\ pc[c] = "Reading"
    /\ nread[c] < MaxReads
    /\ nread' = [nread EXCEPT ![c] = @ + 1]
    /\ Write(c, nread[c] + 1,
             [McResponse EXCEPT !.Response = "CLIENT_ERROR " \o ErrProtocol])
    /\ UNCHANGED <<now, nsec, store, pc, req, res, herr, gi, exp, blog, closes, ret>>

\* ReadRequest returned io.EOF
ServeReadEOF(c) ==
    /\ pc[c] = "Reading"
    /\ ServeReturn(c, "nil")
    /\ UNCHANGED <<now, nsec, store, req, res, herr, gi, exp, blog, nread, out, wire>>

\* ReadRequest returned any other error
ServeReadError(c) ==
    /\ pc[c] = "Reading"
    /\ ServeReturn(c, "error")
    /\ UNCHANGED <<now, nsec, store, req, res, herr, gi, exp, blog, nread, out, wire>>

-----------------------------------------------------------------------------
(* Client.Serve: dispatch, and the handlers.  A handler takes one step per *)
(* backend call, so that the calls of several connections interleave.      *)

Cmd(c) == ToLower(req[c].Command)

Dispatching(c, h) ==
    /\ pc[c] = "Dispatching"
    /\ Cmd(c) \in DOMAIN methods
    /\ methods[Cmd(c)] = h

\* the handler returned e with res.Response set to line (kept if line = "")
Return(c, e, line) ==
    /\ herr' = [herr EXCEPT ![c] = e]
    /\ res' = [res EXCEPT ![c].Response = IF line = "" THEN @ ELSE line]
    /\ pc' = [pc EXCEPT ![c] = "Responding"]

Logged(c, call) == blog' = [blog EXCEPT ![c] = Append(@, call)]

\* redis.Nil is not told from a value: a missing key yields an empty entry
GetHandlerNilAsValue(c) ==
    /\ Dispatching(c, "GetHandler")
    /\ IF gi[c] > Len(req[c].Keys)
       THEN /\ Return(c, "", "END")
            /\ UNCHANGED <<store, gi, blog>>
       ELSE \E fail \in BOOLEAN :
              LET key == req[c].Keys[gi[c]]
                  r == BackendGet(store, key, fail)
              IN  /\ store' = r.store
                  /\ Logged(c, Call("Get", key, Zero, r.err))
                  /\ IF r.err # ""
                     THEN /\ Return(c, r.err, "")
                          /\ UNCHANGED gi
                     ELSE /\ gi' = [gi EXCEPT ![c] = @ + 1]
                          /\ res' = [res EXCEPT ![c].Values =
                                       Append(@, McValue(key, "0", r.val))]
                          /\ UNCHANGED <<herr, pc>>
    /\ UNCHANGED <<now, nsec, req, exp, nread, out, wire, closes, ret>>
\* a backend error is skipped like a missing key
GetHandlerSkipsErrors(c) ==
    /\ Dispatching(c, "GetHandler")
    /\ IF gi[c] > Len(req[c].Keys)
       THEN /\ Return(c, "", "END")
            /\ UNCHANGED <<store, gi, blog>>
       ELSE \E fail \in BOOLEAN :
              LET key == req[c].Keys[gi[c]]
                  r == BackendGet(store, key, fail)
              IN  /\ store' = r.store
                  /\ Logged(c, Call("Get", key, Zero, r.err))
                  /\ IF r.nil \/ r.err # ""
                     THEN /\ gi' = [gi EXCEPT ![c] = @ + 1]
                          /\ UNCHANGED <<res, herr, pc>>
                     ELSE /\ gi' = [gi EXCEPT ![c] = @ + 1]
                          /\ res' = [res EXCEPT ![c].Values =
                                       Append(@, McValue(key, "0", r.val))]
                          /\ UNCHANGED <<herr, pc>>
    /\ UNCHANGED <<now, nsec, req, exp, nread, out, wire, closes, ret>>

\* one iteration of GetHandler's loop over req.Keys, or its end
GetHandler(c) ==
    /\ Dispatching(c, "GetHandler")
    /\ IF gi[c] > Len(req[c].Keys)
       THEN /\ Return(c, "", "END")
            /\ UNCHANGED <<store, gi, blog>>
       ELSE \E fail \in BOOLEAN :
              LET key == req[c].Keys[gi[c]]
                  r == BackendGet(store, key, fail)
              IN  /\ store' = r.store
                  /\ Logged(c, Call("Get", key, Zero, r.err))
                  /\ IF r.nil
                     THEN /\ gi' = [gi EXCEPT ![c] = @ + 1]
                          /\ UNCHANGED <<res, herr, pc>>
                     ELSE IF r.err # ""
                     THEN /\ Return(c, r.err, "")
                          /\ UNCHANGED gi
                     ELSE /\ gi' = [gi EXCEPT ![c] = @ + 1]
                          /\ res' = [res EXCEPT ![c].Values =
                                       Append(@, McValue(key, "0", r.val))]
                          /\ UNCHANGED <<herr, pc>>
    /\ UNCHANGED <<now, nsec, req, exp, nread, out, wire, closes, ret>>

\* the expiry path taken for every duration that is not positive
SetHandlerExpireNonPositive(c) ==
    /\ Dispatching(c, "SetHandler")
    /\ LET e == expirationParser(req[c].Exptime, Now)
       IN  /\ exp' = [exp EXCEPT ![c] = e]
           /\ IF e.err # ""
              THEN Return(c, e.err, "")
              ELSE /\ pc' = [pc EXCEPT ![c] =
                               IF Leq(e.secs, Zero) THEN "Expire" ELSE "Set"]
                   /\ UNCHANGED <<res, herr>>
    /\ UNCHANGED <<now, nsec, store, req, gi, blog, nread, out, wire, closes,
                   ret>>

\* SetHandler up to its branch on exp.past: expirationParser reads the clock
SetHandler(c) ==
    /\ Dispatching(c, "SetHandler")
    /\ LET e == expirationParser(req[c].Exptime, Now)
       IN  /\ exp' = [exp EXCEPT ![c] = e]
           /\ IF e.err # ""
              THEN Return(c, e.err, "")
              ELSE /\ pc' = [pc EXCEPT ![c] =
                               IF e.past THEN "Expire" ELSE "Set"]
                   /\ UNCHANGED <<res, herr>>
    /\ UNCHANGED <<now, nsec, store, req, gi, blog, nread, out, wire, closes,
                   ret>>

\* backend.Expire of SetHandler; its result is not read
SetHandlerExpire(c) ==
    /\ pc[c] = "Expire"
    /\ \E fail \in BOOLEAN :
         LET r == BackendExpire(store, req[c].Key, exp[c].secs, Mstime, fail)
         IN  /\ store' = r.store
             /\ Logged(c, Call("Expire", req[c].Key, exp[c].secs, r.err))
             /\ Return(c, "", "STORED")
    /\ UNCHANGED <<now, nsec, req, gi, exp, nread, out, wire, closes, ret>>

\* backend.Set of SetHandler
SetHandlerSet(c) ==
    /\ pc[c] = "Set"
    /\ \E fail \in BOOLEAN :
         LET r == BackendSet(store, req[c].Key, req[c].Value, exp[c].secs,
                             Mstime, fail)
         IN  /\ store' = r.store
             /\ Logged(c, Call("Set", req[c].Key, exp[c].secs, r.err))
             /\ IF r.err # "" THEN Return(c, r.err, "")
                ELSE Return(c, "", "STORED")
    /\ UNCHANGED <<now, nsec, req, gi, exp, nread, out, wire, closes, ret>>

\* AddHandler up to its backend call: expirationParser reads the clock
AddHandler(c) ==
    /\ Dispatching(c, "AddHandler")
    /\ LET e == expirationParser(req[c].Exptime, Now)
       IN  /\ exp' = [exp EXCEPT ![c] = e]
           /\ IF e.err # ""
              THEN Return(c, e.err, "")
              ELSE /\ pc' = [pc EXCEPT ![c] = "SetNX"]
                   /\ UNCHANGED <<res, herr>>
    /\ UNCHANGED <<now, nsec, store, req, gi, blog, nread, out, wire, closes,
                   ret>>

\* a plain SET in place of the set-if-absent
AddHandlerOverwrite(c) ==
    /\ pc[c] = "SetNX"
    /\ \E fail \in BOOLEAN :
         LET r == BackendSet(store, req[c].Key, req[c].Value, exp[c].secs,
                             Mstime, fail)
         IN  /\ store' = r.store
             /\ Logged(c, Call("SetNX", req[c].Key, exp[c].secs, r.err))
             /\ IF r.err # "" THEN Return(c, r.err, "")
                ELSE Return(c, "", "STORED")
    /\ UNCHANGED <<now, nsec, req, gi, exp, nread, out, wire, closes, ret>>

\* STORED whatever the set-if-absent reports
AddHandlerAlwaysStored(c) ==
    /\ pc[c] = "SetNX"
    /\ \E fail \in BOOLEAN :
         LET r == BackendSetNX(store, req[c].Key, req[c].Value, exp[c].secs,
                               Mstime, fail)
         IN  /\ store' = r.store
             /\ Logged(c, Call("SetNX", req[c].Key, exp[c].secs, r.err))
             /\ IF r.err # "" THEN Return(c, r.err, "")
                ELSE Return(c, "", "STORED")
    /\ UNCHANGED <<now, nsec, req, gi, exp, nread, out, wire, closes, ret>>

\* backend.SetNX of AddHandler
AddHandlerSetNX(c) ==
    /\ pc[c] = "SetNX"
    /\ \E fail \in BOOLEAN :
         LET r == BackendSetNX(store, req[c].Key, req[c].Value, exp[c].secs,
                               Mstime, fail)
         IN  /\ store' = r.store
             /\ Logged(c, Call("SetNX", req[c].Key, exp[c].secs, r.err))
             /\ IF r.err # "" THEN Return(c, r.err, "")
                ELSE IF r.val THEN Return(c, "", "STORED")
                ELSE Return(c, "", "NOT_STORED")
    /\ UNCHANGED <<now, nsec, req, gi, exp, nread, out, wire, closes, ret>>

\* DELETED whatever the number of keys the backend removed
DeleteHandlerNoCount(c) ==
    /\ Dispatching(c, "DeleteHandler")
    /\ \E fail \in BOOLEAN :
         LET r == BackendDel(store, req[c].Key, fail)
         IN  /\ store' = r.store
             /\ Logged(c, Call("Del", req[c].Key, Zero, r.err))
             /\ IF r.err # "" THEN Return(c, r.err, "")
                ELSE Return(c, "", "DELETED")
    /\ UNCHANGED <<now, nsec, req, gi, exp, nread, out, wire, closes, ret>>

DeleteHandler(c) ==
    /\ Dispatching(c, "DeleteHandler")
    /\ \E fail \in BOOLEAN :
         LET r == BackendDel(store, req[c].Key, fail)
         IN  /\ store' = r.store
             /\ Logged(c, Call("Del", req[c].Key, Zero, r.err))
             /\ IF r.err # "" THEN Return(c, r.err, "")
                ELSE IF r.val > 0 THEN Return(c, "", "DELETED")
                ELSE Return(c, "", "NOT_FOUND")
    /\ UNCHANGED <<now, nsec, req, gi, exp, nread, out, wire, closes, ret>>

\* the existence check left out: the handler always goes on to count
ExistsStepNoCheck(c, h, next) ==
    /\ Dispatching(c, h)
    /\ \E fail \in BOOLEAN :
         LET r == BackendExists(store, req[c].Key, fail)
         IN  /\ store' = r.store
             /\ Logged(c, Call("Exists", req[c].Key, Zero, r.err))
             /\ pc' = [pc EXCEPT ![c] = next]
             /\ UNCHANGED <<res, herr>>
    /\ UNCHANGED <<now, nsec, req, gi, exp, nread, out, wire, closes, ret>>

\* backend.Exists of IncrHandler (h = "IncrHandler", next = "IncrBy") and of
\* DecrHandler (h = "DecrHandler", next = "DecrBy"); its error is not read
ExistsStep(c, h, next) ==
    /\ Dispatching(c, h)
    /\ \E fail \in BOOLEAN :
         LET r == BackendExists(store, req[c].Key, fail)
         IN  /\ store' = r.store
             /\ Logged(c, Call("Exists", req[c].Key, Zero, r.err))
             /\ IF ~r.val
                THEN Return(c, "", "NOT_FOUND")
                ELSE /\ pc' = [pc EXCEPT ![c] = next]
                     /\ UNCHANGED <<res, herr>>
    /\ UNCHANGED <<now, nsec, req, gi, exp, nread, out, wire, closes, ret>>

IncrHandlerExists(c) == ExistsStep(c, "IncrHandler", "IncrBy")

DecrHandlerExists(c) == ExistsStep(c, "DecrHandler", "DecrBy")

\* backend.IncrBy of IncrHandler
IncrHandlerIncrBy(c) ==
    /\ pc[c] = "IncrBy"
    /\ \E fail \in BOOLEAN :
         LET r == BackendIncrBy(store, req[c].Key, req[c].Increment, fail)
         IN  /\ store' = r.store
             /\ Logged(c, Call("IncrBy", req[c].Key, Zero, r.err))
             /\ IF r.err # "" THEN Return(c, r.err, "")
                ELSE Return(c, "", FormatInt(r.val))
    /\ UNCHANGED <<now, nsec, req, gi, exp, nread, out, wire, closes, ret>>

\* backend.DecrBy of DecrHandler
DecrHandlerDecrBy(c) ==
    /\ pc[c] = "DecrBy"
    /\ \E fail \in BOOLEAN :
         LET r == BackendDecrBy(store, req[c].Key, req[c].Increment, fail)
         IN  /\ store' = r.store
             /\ Logged(c, Call("DecrBy", req[c].Key, Zero, r.err))
             /\ IF r.err # "" THEN Return(c, r.err, "")
                ELSE Return(c, "", FormatInt(r.val))
    /\ UNCHANGED <<now, nsec, req, gi, exp, nread, out, wire, closes, ret>>

FlushAllHandler(c) ==
    /\ Dispatching(c, "FlushAllHandler")
    /\ \E fail \in BOOLEAN :
         LET r == BackendFlushAll(store, fail)
         IN  /\ store' = r.store
             /\ Logged(c, Call("FlushAll", "", Zero, r.err))
             /\ IF r.err # "" THEN Return(c, r.err, "")
                ELSE Return(c, "", "OK")
    /\ UNCHANGED <<now, nsec, req, gi, exp, nread, out, wire, closes, ret>>

VersionHandler(c) ==
    /\ Dispatching(c, "VersionHandler")
    /\ Return(c, "", "VERSION redcached-0.1")
    /\ UNCHANGED <<now, nsec, store, req, gi, exp, blog, nread, out, wire, closes, ret>>

\* the loop goes back to ReadRequest; req, res and the handler's variables
\* are those of the iteration that ends
EndIteration(c) ==
    /\ pc' = [pc EXCEPT ![c] = "Reading"]
    /\ req' = [req EXCEPT ![c] = NoRequest]
    /\ res' = [res EXCEPT ![c] = McResponse]
    /\ herr' = [herr EXCEPT ![c] = ""]
    /\ gi' = [gi EXCEPT ![c] = 1]
    /\ exp' = [exp EXCEPT ![c] = NoTTL]
    /\ blog' = [blog EXCEPT ![c] = <<>>]

\* the response is written whatever the no-reply flag says
ServeRespondAlways(c) ==
    /\ pc[c] = "Responding"
    /\ LET r == IF herr[c] # ""
                THEN [res[c] EXCEPT !.Response = "SERVER_ERROR " \o herr[c]]
                ELSE res[c]
       IN  Write(c, nread[c], r)
    /\ EndIteration(c)
    /\ UNCHANGED <<now, nsec, store, nread, closes, ret>>
\* a handler that failed is run again
ServeRespondRetries(c) ==
    /\ pc[c] = "Responding"
    /\ IF herr[c] # ""
       THEN /\ pc' = [pc EXCEPT ![c] = "Dispatching"]
            /\ herr' = [herr EXCEPT ![c] = ""]
            /\ blog' = [blog EXCEPT ![c] = <<>>]
            /\ UNCHANGED <<req, res, gi, exp, out, wire>>
       ELSE /\ IF req[c].Noreply THEN UNCHANGED <<out, wire>>
               ELSE Write(c, nread[c], res[c])
            /\ EndIteration(c)
    /\ UNCHANGED <<now, nsec, store, nread, closes, ret>>

\* after the handler: the SERVER_ERROR line, and the write unless noreply
ServeRespond(c) ==
    /\ pc[c] = "Responding"
    /\ LET r == IF herr[c] # ""
                THEN [res[c] EXCEPT !.Response = "SERVER_ERROR " \o herr[c]]
                ELSE res[c]
       IN  IF req[c].Noreply THEN UNCHANGED <<out, wire>>
           ELSE Write(c, nread[c], r)
    /\ EndIteration(c)
    /\ UNCHANGED <<now, nsec, store, nread, closes, ret>>

\* the reply to an unknown command is suppressed by the no-reply flag
ServeNotImplementedQuiet(c) ==
    /\ pc[c] = "Dispatching"
    /\ Cmd(c) \notin DOMAIN methods
    /\ LET r == [res[c] EXCEPT !.Response =
                   "ERROR not implemented cmd '" \o Cmd(c) \o "' in handler"]
       IN  IF req[c].Noreply THEN UNCHANGED <<out, wire>>
           ELSE Write(c, nread[c], r)
    /\ EndIteration(c)
    /\ UNCHANGED <<now, nsec, store, nread, closes, ret>>

\* the command is not in the dispatch table: always answered
ServeNotImplemented(c) ==
    /\ pc[c] = "Dispatching"
    /\ Cmd(c) \notin DOMAIN methods
    /\ LET r == [res[c] EXCEPT !.Response =
                   "ERROR not implemented cmd '" \o Cmd(c) \o "' in handler"]
       IN  Write(c, nread[c], r)
    /\ EndIteration(c)
    /\ UNCHANGED <<now, nsec, store, nread, closes, ret>>

-----------------------------------------------------------------------------
(* The clock, and the specifications *)

\* the nanoseconds at which the clock is read within a second: at the full
\* second, and half a millisecond before the next one
Nsecs == <<0, 999500000>>

\* the place of the reading r in Nsecs
NsecAt(r) == CHOOSE i \in 1..Len(Nsecs) : Nsecs[i] = r

\* the clock steps made since the start
Ticks == (now - Now0) * Len(Nsecs) + NsecAt(nsec) - 1

\* time passes to the next reading of the clock; the backend drops the
\* entries that have expired
Tick ==
    /\ Ticks < MaxTicks
    /\ IF NsecAt(nsec) = Len(Nsecs)
       THEN /\ now' = now + 1
            /\ nsec' = Nsecs[1]
       ELSE /\ now' = now
            /\ nsec' = Nsecs[NsecAt(nsec) + 1]
    /\ store' = Purge(store, Mstime')
    /\ UNCHANGED <<pc, req, res, herr, gi, exp, blog, nread, out, wire, closes,
                   ret>>

\* what earlier connections may have left in the backend
InitStores ==
    {[k \in Keys |-> IF k = "k1" THEN e1 ELSE e2] :
        e1 \in {Absent, Entry("5", NoExpiry), Entry("a", NoExpiry)},
        e2 \in {Absent, Entry("5", NoExpiry)}}

InitConns(C) ==
    /\ pc = [c \in C |-> "Reading"]
    /\ req = [c \in C |-> NoRequest]
    /\ res = [c \in C |-> McResponse]
    /\ herr = [c \in C |-> ""]
    /\ gi = [c \in C |-> 1]
    /\ exp = [c \in C |-> NoTTL]
    /\ blog = [c \in C |-> <<>>]
    /\ nread = [c \in C |-> 0]
    /\ out = [c \in C |-> <<>>]
    /\ wire = [c \in C |-> McResponse]
    /\ closes = [c \in C |-> 0]
    /\ ret = [c \in C |-> "running"]

Init ==
    /\ now = Now0
    /\ nsec = Nsecs[1]
    /\ store \in InitStores
    /\ InitConns({1})

Next ==
    \/ Tick
    \/ \E c \in Conns : ServeRead(c, Requests)
    \/ \E c \in Conns : ServeReadProtocolError(c)
    \/ \E c \in Conns : ServeReadEOF(c)
    \/ \E c \in Conns : ServeReadError(c)
    \/ \E c \in Conns : GetHandler(c)
    \/ \E c \in Conns : SetHandler(c)
    \/ \E c \in Conns : SetHandlerExpire(c)
    \/ \E c \in Conns : SetHandlerSet(c)
    \/ \E c \in Conns : AddHandler(c)
    \/ \E c \in Conns : AddHandlerSetNX(c)
    \/ \E c \in Conns : DeleteHandler(c)
    \/ \E c \in Conns : IncrHandlerExists(c)
    \/ \E c \in Conns : IncrHandlerIncrBy(c)
    \/ \E c \in Conns : DecrHandlerExists(c)
    \/ \E c \in Conns : DecrHandlerDecrBy(c)
    \/ \E c \in Conns : FlushAllHandler(c)
    \/ \E c \in Conns : VersionHandler(c)
    \/ \E c \in Conns : ServeRespond(c)
    \/ \E c \in Conns : ServeNotImplemented(c)

\* one connection, every kind of request
Spec == Init /\ [][Next]_vars

\* what each of several connections sends on the shared backend: counting,
\* adding and removing one key
ConcRequests ==
    CountRequests({CmdIncr}, {"k1"}, {5})
    \cup KeyRequests({CmdDelete}, {"k1"})
    \cup StoreRequests({CmdAdd}, {"k1"}, {"7"}, {Zero})
    \cup StoreRequests({CmdAdd}, {"k1"}, {"b"}, {Wide(1)})

InitConc ==
    /\ now = Now0
    /\ nsec = Nsecs[1]
    /\ store \in {EmptyStore, [EmptyStore EXCEPT !["k1"] = Entry("5", NoExpiry)]}
    /\ InitConns({1, 2})

NextConc ==
    \/ Tick
    \/ \E c \in Conns : ServeRead(c, ConcRequests)
    \/ \E c \in Conns : AddHandler(c)
    \/ \E c \in Conns : AddHandlerSetNX(c)
    \/ \E c \in Conns : DeleteHandler(c)
    \/ \E c \in Conns : IncrHandlerExists(c)
    \/ \E c \in Conns : IncrHandlerIncrBy(c)
    \/ \E c \in Conns : ServeRespond(c)

\* two connections on one backend
SpecConc == InitConc /\ [][NextConc]_vars

\* what a connection that counts on one key sends; the capital I with a dot
\* above is lower-cased to i, which makes the command incr
CountGetRequests ==
    CountRequests({CmdIncr, CmdDecr, <<"U+0130","N","C","R">>}, {"k1"},
                  Increments)
    \cup {r \in GetRequests({CmdGet}) : r.Keys = <<"k1">>}

\* the counted key is absent, a number, not a number, a number next to the
\* end of the backend's integers on either side, or a number that expires
InitCount ==
    /\ now = Now0
    /\ nsec = Nsecs[1]
    /\ store \in {[EmptyStore EXCEPT !["k1"] = e] :
                    e \in {Absent, Entry("5", NoExpiry), Entry("a", NoExpiry),
                           Entry(FormatInt(MaxNum - 2), NoExpiry),
                           Entry(FormatInt(2 - MaxNum), NoExpiry),
                           Entry("5", MulBase(Wide(Now0 + 1)))}}
    /\ InitConns({1})

NextCount ==
    \/ Tick
    \/ \E c \in Conns : ServeRead(c, CountGetRequests)
    \/ \E c \in Conns : GetHandler(c)
    \/ \E c \in Conns : IncrHandlerExists(c)
    \/ \E c \in Conns : IncrHandlerIncrBy(c)
    \/ \E c \in Conns : DecrHandlerExists(c)
    \/ \E c \in Conns : DecrHandlerDecrBy(c)
    \/ \E c \in Conns : ServeRespond(c)

\* one connection counting on one key
SpecCount == InitCount /\ [][NextCount]_vars

\* what each connection sends where the end of Serve is looked at: requests
\* that succeed, that fail in the handler, that are unknown, and quit
LiveRequests ==
    CountRequests({CmdIncr}, {"k1"}, {5})
    \cup StoreRequests({CmdSet}, {"k1"}, {"7"}, {Wide(0 - 1), Zero})
    \cup BareRequests(UnknownCmds \cup QuitCmds)

LiveConns == {1}

InitLive ==
    /\ now = Now0
    /\ nsec = Nsecs[1]
    /\ store \in {EmptyStore, [EmptyStore EXCEPT !["k1"] = Entry("5", NoExpiry)]}
    /\ InitConns(LiveConns)

NextLive ==
    \/ \E c \in Conns : ServeRead(c, LiveRequests)
    \/ \E c \in Conns : ServeReadProtocolError(c)
    \/ \E c \in Conns : ServeReadEOF(c)
    \/ \E c \in Conns : ServeReadError(c)
    \/ \E c \in Conns : SetHandler(c)
    \/ \E c \in Conns : SetHandlerSet(c)
    \/ \E c \in Conns : IncrHandlerExists(c)
    \/ \E c \in Conns : IncrHandlerIncrBy(c)
    \/ \E c \in Conns : ServeRespond(c)
    \/ \E c \in Conns : ServeNotImplemented(c)

\* the next step of the goroutine that serves connection c
ServeStep(c) ==
    \/ ServeRead(c, LiveRequests)
    \/ ServeReadProtocolError(c)
    \/ ServeReadEOF(c)
    \/ ServeReadError(c)
    \/ SetHandler(c)
    \/ SetHandlerSet(c)
    \/ IncrHandlerExists(c)
    \/ IncrHandlerIncrBy(c)
    \/ ServeRespond(c)
    \/ ServeNotImplemented(c)

\* every goroutine that can take a step takes one: ReadRequest and the
\* backend calls return, and a stream carries at most MaxReads requests
\* before its end
SpecLive ==
    InitLive /\ [][NextLive]_vars /\ \A c \in LiveConns : WF_vars(ServeStep(c))

\* the last second time.Unix takes without wrap-around of its int64
MaxUnix == Minus(MaxInt64, unixToInternal)

\* the whole seconds of the longest Duration, 9,223,372,036
MaxSeconds == DivBase(MaxInt64)

\* the integers from a - below to a + above
Around(a, below, above) == {Add(a, Wide(i)) : i \in (0 - below)..above}

\* raw expirations on both sides of 0, of the threshold, of the clock, of
\* the longest Duration after the clock and of the last second of
\* time.Unix, and next to the ends of the int64
TTLRaws ==
    Around(Zero, TTLSpan, TTLSpan)
    \cup Around(Wide(Threshold), TTLSpan, 2 * TTLSpan)
    \cup Around(Add(Wide(Threshold + 1), MaxSeconds), TTLSpan, TTLSpan)
    \cup Around(MaxUnix, TTLSpan, TTLSpan)
    \cup Around(MaxInt64, TTLSpan, 0)
    \cup Around(MinInt64, 0, TTLSpan)

\* the seconds of the clock next to the first absolute expiration
TTLNows == (Threshold + 1 - TTLSpan)..(Threshold + 1 + TTLSpan)

\* a SET or an ADD is decoded and about to be handled
InitTTL ==
    /\ now \in TTLNows
    /\ nsec \in {Nsecs[i] : i \in 1..Len(Nsecs)}
    /\ store = EmptyStore
    /\ pc = [c \in {1} |-> "Dispatching"]
    /\ req \in [{1} -> StoreRequests({CmdSet, CmdAdd}, {"k1"}, {"7"}, TTLRaws)]
    /\ res = [c \in {1} |-> McResponse]
    /\ herr = [c \in {1} |-> ""]
    /\ gi = [c \in {1} |-> 1]
    /\ exp = [c \in {1} |-> NoTTL]
    /\ blog = [c \in {1} |-> <<>>]
    /\ nread = [c \in {1} |-> 1]
    /\ out = [c \in {1} |-> <<>>]
    /\ wire = [c \in {1} |-> McResponse]
    /\ closes = [c \in {1} |-> 0]
    /\ ret = [c \in {1} |-> "running"]

NextTTL ==
    \/ \E c \in Conns : SetHandler(c)
    \/ \E c \in Conns : SetHandlerExpire(c)
    \/ \E c \in Conns : SetHandlerSet(c)
    \/ \E c \in Conns : AddHandler(c)
    \/ \E c \in Conns : AddHandlerSetNX(c)
    \/ \E c \in Conns : ServeRespond(c)

\* expirationParser on a range of expirations and clock values
SpecTTL == InitTTL /\ [][NextTTL]_vars

-----------------------------------------------------------------------------
(* Properties of the serve loop *)

\* connection c takes a step of Serve
Acts(c) == <<pc[c], gi[c], nread[c]>>' # <<pc[c], gi[c], nread[c]>>

\* the positions of Serve at which a handler makes a backend call
CallPcs == {"Set", "Expire", "SetNX", "IncrBy", "DecrBy"}

\* the positions of Serve between the decoding of a request and its answer
ServingPcs == {"Dispatching", "Responding"} \cup CallPcs

\* the wall clock as an instant, in nanoseconds since the epoch
Clock == Norm(<<nsec, now, 0, 0>>)

\* the request of c is being handled by a handler of the dispatch table
InTable(c) ==
    /\ pc[c] \in ServingPcs
    /\ Cmd(c) \in DOMAIN methods

\* the backend call that the step of c logs, if it logs one
Logs(c) == Len(blog'[c]) = Len(blog[c]) + 1

LastCall(c) == blog'[c][Len(blog'[c])]

\* the store after a logged backend call that did not fail
Applied(c) ==
    LET call == LastCall(c)
        k == call.key
        old == IF store[k].has THEN store[k].val ELSE "0"
    IN  CASE call.op = "Set" ->
               store' = [store EXCEPT ![k] =
                           Entry(req[c].Value,
                                 IF Leq(call.dur, Zero) THEN NoExpiry
                                 ELSE ExpireAt(call.dur, Mstime))]
          [] call.op = "SetNX" ->
               store' = IF store[k].has THEN store
                        ELSE [store EXCEPT ![k] =
                                Entry(req[c].Value,
                                      IF call.dur = Zero THEN NoExpiry
                                      ELSE ExpireAt(call.dur, Mstime))]
          [] call.op = "Expire" ->
               store' = IF store[k].has /\ Leq(call.dur, Zero)
                        THEN [store EXCEPT ![k] = Absent] ELSE store
          [] call.op = "Del" -> store' = [store EXCEPT ![k] = Absent]
          [] call.op = "IncrBy" ->
               store' = [store EXCEPT ![k] =
                           Entry(FormatInt(ParseInt(old) + req[c].Increment),
                                 store[k].exp)]
          [] call.op = "DecrBy" ->
               store' = [store EXCEPT ![k] =
                           Entry(FormatInt(ParseInt(old) - req[c].Increment),
                                 store[k].exp)]
          [] call.op = "FlushAll" -> store' = EmptyStore
          [] OTHER -> store' = store

NoReplyStep(c) ==
    (InTable(c) /\ req[c].Noreply /\ Acts(c)) =>
        /\ out'[c] = out[c]
        /\ wire'[c] = wire[c]
        /\ pc'[c] # "Closed"
        /\ pc[c] = "Responding" => pc'[c] = "Reading"
        /\ pc[c] # "Responding" =>
             /\ pc'[c] \in ServingPcs
             /\ pc'[c] = "Responding" =>
                  (herr'[c] # "" \/ res'[c].Response # "")
             /\ (Logs(c) /\ LastCall(c).err = "") => Applied(c)
             /\ pc[c] \in CallPcs => Logs(c)
             /\ (pc[c] = "Dispatching" /\ blog[c] = <<>>) =>
                  CASE methods[Cmd(c)] = "VersionHandler" ->
                         pc'[c] = "Responding"
                    [] methods[Cmd(c)] = "SetHandler" ->
                         IF Less(req[c].Exptime, Zero)
                         THEN herr'[c] = ErrNegative
                         ELSE pc'[c] \in {"Set", "Expire"}
                    [] methods[Cmd(c)] = "AddHandler" ->
                         IF Less(req[c].Exptime, Zero)
                         THEN herr'[c] = ErrNegative
                         ELSE pc'[c] = "SetNX"
                    [] OTHER -> Logs(c)

\* C1: a request of the dispatch table with the no-reply flag set has its
\* handler invoked and the handler's backend calls applied to the store,
\* nothing is written to the connection for it (also when the handler
\* returned an error), and the loop returns to reading.
C1_NoReplyRunsHandlerWritesNothing ==
    [][\A c \in Conns : NoReplyStep(c)]_vars

\* a no-reply request was served: nothing was written, its SET is stored
C1_Witness ==
    /\ pc[1] = "Reading"
    /\ nread[1] = 1
    /\ out[1] = <<>>
    /\ store["k1"] = Entry("7", NoExpiry)

NotImplementedLine(c) ==
    "ERROR not implemented cmd '" \o Cmd(c) \o "' in handler"

Unknown(c) ==
    /\ pc[c] \notin {"Reading", "Closed"}
    /\ Cmd(c) # "quit"
    /\ Cmd(c) \notin DOMAIN methods

UnknownStep(c) ==
    (Unknown(c) /\ Acts(c)) =>
        /\ out'[c] = Append(out[c], nread[c])
        /\ wire'[c] = [Response |-> NotImplementedLine(c), Values |-> <<>>]
        /\ store' = store
        /\ pc'[c] = "Reading"

\* C2: a request whose lower-cased command is neither "quit" nor in the
\* dispatch table gets exactly one written "not implemented" response, with
\* or without the no-reply flag; no handler and no backend call runs for it
\* and the store is left as it was.
C2_UnknownCommandAlwaysAnswered ==
    /\ [](\A c \in Conns : Unknown(c) =>
            (pc[c] = "Dispatching" /\ blog[c] = <<>> /\ herr[c] = ""))
    /\ [][\A c \in Conns : UnknownStep(c)]_vars

\* "QUITS" was answered as the unknown command "quits"
C2_Witness ==
    /\ pc[1] = "Reading"
    /\ out[1] = <<1>>
    /\ wire[1].Response = "ERROR not implemented cmd 'quits' in handler"

\* C3: conn.Close() has run exactly once when Serve has returned, on each
\* of its exits (quit, end of stream, fatal decode error), and not at all
\* while the loop runs.
C3_ClosedExactlyOnce ==
    \A c \in Conns :
        /\ pc[c] = "Closed" <=> ret[c] # "running"
        /\ closes[c] = IF pc[c] = "Closed" THEN 1 ELSE 0

\* Serve returned nil after a request was served: end of stream or quit
C3_Witness ==
    /\ pc[1] = "Closed"
    /\ ret[1] = "nil"
    /\ nread[1] = 2
    /\ closes[1] = 1

-----------------------------------------------------------------------------
(* Properties of the handlers *)

\* the request of c is at the start of (or, for GET, inside) handler h
Handling(c, h) ==
    /\ pc[c] = "Dispatching"
    /\ Cmd(c) \in DOMAIN methods
    /\ methods[Cmd(c)] = h

\* the handler h of c has returned and Serve has not yet answered
Returned(c, h) ==
    /\ pc[c] = "Responding"
    /\ Cmd(c) \in DOMAIN methods
    /\ methods[Cmd(c)] = h

\* what ServeRespond puts on the wire for the returned handler of c
Answers(c, line) ==
    (pc[c] = "Responding" /\ ~req[c].Noreply /\ Acts(c)) =>
        wire'[c] = [Response |-> line, Values |-> res[c].Values]

CountAbsentStep(c) ==
    /\ ((Handling(c, "IncrHandler") \/ Handling(c, "DecrHandler"))
          /\ ~store[req[c].Key].has /\ Acts(c)) =>
            /\ pc'[c] = "Responding"
            /\ res'[c].Response = "NOT_FOUND"
            /\ herr'[c] = ""
            /\ store' = store
    /\ ((Returned(c, "IncrHandler") \/ Returned(c, "DecrHandler"))
          /\ res[c].Response = "NOT_FOUND" /\ Acts(c)) =>
            /\ store' = store
            /\ Answers(c, "NOT_FOUND")

\* C4: INCR or DECR on a key that is absent when the handler checks it
\* reports NOT_FOUND and no error, and changes no key of the store: the key
\* is still absent and every other key is as it was.
C4_CountOnAbsentKeyNotFound ==
    [][\A c \in Conns : CountAbsentStep(c)]_vars

\* an INCR found its key absent and returned NOT_FOUND
C4_Witness ==
    /\ Returned(1, "IncrHandler")
    /\ res[1].Response = "NOT_FOUND"
    /\ herr[1] = ""
    /\ ~store[req[1].Key].has
    /\ Len(blog[1]) = 1

\* C5: in every interleaving of connections, the increment of INCR or DECR
\* never makes an absent key present.
C5_CountNeverCreatesKey ==
    [][\A c \in Conns :
         (pc[c] \in {"IncrBy", "DecrBy"} /\ Acts(c)) =>
             \A k \in Keys : store'[k].has => store[k].has]_vars

\* C6: when a backend call of a handler fails, the handler returns that
\* failure as its error (so that Serve answers SERVER_ERROR and no success
\* status), and the call is made once.
C6_BackendFailureReturned ==
    \A c \in Conns :
        pc[c] = "Responding" =>
            \A i \in DOMAIN blog[c] :
                blog[c][i].err # "" =>
                    /\ herr[c] = blog[c][i].err
                    /\ i = Len(blog[c])

\* expirationParser has returned in the SET or ADD handler of c
Parsed(c) ==
    /\ pc[c] \in {"Set", "Expire", "SetNX", "Responding"}
    /\ Cmd(c) \in DOMAIN methods
    /\ methods[Cmd(c)] \in {"SetHandler", "AddHandler"}

\* the rules for raw = 0, raw < 0 and 0 < raw <= 2,592,000
RelativeRules(c) ==
    LET raw == req[c].Exptime
        t == exp[c]
    IN  /\ raw = Zero =>
             t = [secs |-> Zero, unlimited |-> TRUE, past |-> FALSE,
                  err |-> ""]
        /\ Less(raw, Zero) =>
             /\ t.err # ""
             /\ herr[c] = t.err
             /\ blog[c] = <<>>
        /\ (Less(Zero, raw) /\ Leq(raw, Wide(2592000))) =>
             t = [secs |-> MulBase(raw), unlimited |-> FALSE, past |-> FALSE,
                  err |-> ""]

\* raw - now in nanoseconds, raw being the start of its second
Gap(c) == Minus(MulBase(req[c].Exptime), Clock)

\* the rule for raw > 2,592,000
AbsoluteRule(c) ==
    exp[c] = [secs |-> Gap(c), unlimited |-> FALSE,
              past |-> Leq(MulBase(req[c].Exptime), Clock), err |-> ""]

\* C7 as stated: expirationParser follows the four rules for every raw
\* value and every clock value: 0 is unlimited with no duration; a negative
\* value is an error and no TTL reaches the backend; 1..2,592,000 is that
\* many seconds, not expired; above 2,592,000 the duration is raw - now,
\* expired exactly when raw <= now.
C7_ExpirationRules ==
    \A c \in Conns :
        Parsed(c) =>
            /\ RelativeRules(c)
            /\ Less(Wide(2592000), req[c].Exptime) => AbsoluteRule(c)

\* C7 amended: the rules for 0, for negative values and for 1..2,592,000
\* hold for every raw value and every clock value; above 2,592,000 the
\* duration is raw - now, expired exactly when raw <= now, when raw is a
\* second time.Unix takes without wrap-around and raw - now is within the
\* longest Duration, math.MaxInt64 nanoseconds.  When raw - now is more,
\* the duration is the longest Duration, not expired; a raw value beyond
\* the last second of time.Unix gives the shortest Duration, expired,
\* although it is after the clock.
C7_ExpirationRulesInRange ==
    \A c \in Conns :
        Parsed(c) =>
            LET raw == req[c].Exptime
                t == exp[c]
            IN  /\ RelativeRules(c)
                /\ (Less(Wide(2592000), raw) /\ Leq(raw, MaxUnix)
                      /\ Leq(MinInt64, Gap(c)) /\ Leq(Gap(c), MaxInt64)) =>
                     AbsoluteRule(c)
                /\ (Less(Wide(2592000), raw) /\ Leq(raw, MaxUnix)
                      /\ Less(MaxInt64, Gap(c))) =>
                     t = [secs |-> MaxInt64, unlimited |-> FALSE,
                          past |-> FALSE, err |-> ""]
                /\ Less(MaxUnix, raw) =>
                     /\ Less(Clock, MulBase(raw))
                     /\ t = [secs |-> MinInt64, unlimited |-> FALSE,
                             past |-> TRUE, err |-> ""]

\* the first absolute expiration, 2,592,001, parsed when the clock is half a
\* millisecond before the next second: a negative duration with a fraction
C7_Witness ==
    /\ pc[1] = "Expire"
    /\ req[1].Exptime = Wide(2592001)
    /\ now = 2592001
    /\ nsec > 0
    /\ exp[1].past
    /\ exp[1].secs = Wide(0 - nsec)

\* the entries GET returns for the keys ks on the store s
RECURSIVE Found(_, _)
Found(ks, s) ==
    IF ks = <<>> THEN <<>>
    ELSE (IF s[Head(ks)].has
          THEN <<[Key |-> Head(ks), Flags |-> "0", Data |-> s[Head(ks)].val]>>
          ELSE <<>>) \o Found(Tail(ks), s)

GetStep(c) ==
    /\ (Handling(c, "GetHandler") /\ Acts(c)) =>
         /\ store' = store
         /\ (Logs(c) /\ LastCall(c).err = "") =>
              /\ res'[c].Values =
                   res[c].Values \o Found(<<req[c].Keys[gi[c]]>>, store)
              /\ gi'[c] = gi[c] + 1
              /\ herr'[c] = ""
         /\ ~Logs(c) =>
              /\ gi[c] = Len(req[c].Keys) + 1
              /\ res'[c] = [res[c] EXCEPT !.Response = "END"]
              /\ herr'[c] = ""
    /\ (Returned(c, "GetHandler") /\ herr[c] = "" /\ Acts(c)) =>
         /\ store' = store
         /\ Answers(c, "END")

\* C8: when no backend call fails, GET returns one entry for each requested
\* key that is in the store, in the order of the request, with the stored
\* bytes and the flags "0"; absent keys give no entry and no error; the
\* status line is END; the store is unchanged.
C8_GetReturnsExistingKeysInOrder ==
    /\ [](\A c \in Conns :
            (Returned(c, "GetHandler") /\ herr[c] = "" /\ Ticks = 0) =>
                res[c] = [Response |-> "END",
                          Values |-> Found(req[c].Keys, store)])
    /\ [][\A c \in Conns : GetStep(c)]_vars

\* GET of an absent and a present key returned the present one only
C8_Witness ==
    /\ Returned(1, "GetHandler")
    /\ req[1].Keys = <<"k1", "k2">>
    /\ ~store["k1"].has
    /\ res[1] = [Response |-> "END",
                 Values |-> <<[Key |-> "k2", Flags |-> "0", Data |-> "5"]>>]

\* a step of c that may change key k: SET, DELETE, INCR, DECR of k, FLUSH-ALL
Touches(c, k) ==
    /\ Acts(c)
    /\ pc[c] \in {"Dispatching"} \cup CallPcs
    /\ Cmd(c) \in DOMAIN methods
    /\ \/ methods[Cmd(c)] = "FlushAllHandler"
       \/ /\ methods[Cmd(c)] \in {"SetHandler", "DeleteHandler",
                                  "IncrHandler", "DecrHandler"}
          /\ req[c].Key = k

SetUnlimitedStep(c) ==
    /\ (Handling(c, "SetHandler") /\ req[c].Exptime = Zero /\ Acts(c)) =>
         /\ pc'[c] = "Set"
         /\ exp'[c].unlimited
         /\ exp'[c].secs = Zero
         /\ store' = store
    /\ (pc[c] = "Set" /\ req[c].Exptime = Zero /\ Acts(c)) =>
         /\ pc'[c] = "Responding"
         /\ (herr'[c] = "") =>
              /\ res'[c].Response = "STORED"
              /\ store' = [store EXCEPT ![req[c].Key] =
                             Entry(req[c].Value, NoExpiry)]
         /\ (herr'[c] # "") => store' = store

\* C9: a SET with expiration 0 that reports STORED leaves the key with the
\* value and without expiry; an entry without expiry stays as it is, through
\* any passage of time, until a SET, DELETE, INCR, DECR of its key or a
\* FLUSH-ALL; and a GET of the key returns the stored value.
C9_SetUnlimitedRoundTrip ==
    /\ [][\A c \in Conns : SetUnlimitedStep(c)]_vars
    /\ [][\A k \in Keys :
            (store[k].has /\ store[k].exp = NoExpiry /\ store'[k] # store[k])
                => \E c \in Conns : Touches(c, k)]_vars
    /\ [][\A c \in Conns :
            (Handling(c, "GetHandler") /\ Logs(c) /\ LastCall(c).err = ""
               /\ store[LastCall(c).key].has) =>
                res'[c].Values =
                    Append(res[c].Values,
                           McValue(LastCall(c).key, "0",
                                   store[LastCall(c).key].val))]_vars

\* a value stored without expiry is read back by the next request after a
\* second has passed
C9_Witness ==
    /\ Returned(1, "GetHandler")
    /\ nread[1] = 2
    /\ now = Now0 + 1
    /\ req[1].Keys = <<"k2">>
    /\ store["k2"] = Entry("7", NoExpiry)
    /\ res[1].Values = <<McValue("k2", "0", "7")>>

\* ADD as the claim states it
AddClaimed(c) ==
    IF ~store[req[c].Key].has
    THEN /\ res'[c].Response = "STORED"
         /\ herr'[c] = ""
         /\ store'[req[c].Key].has
         /\ store'[req[c].Key].val = req[c].Value
         /\ \A k \in Keys \ {req[c].Key} : store'[k] = store[k]
    ELSE /\ res'[c].Response = "NOT_STORED"
         /\ herr'[c] = ""
         /\ store' = store

\* C10 as stated: every ADD on an absent key reports STORED and the key
\* exists afterwards with the given value; every ADD on an existing key
\* reports NOT_STORED and leaves it unchanged.
C10_AddAsStated ==
    [][\A c \in Conns :
         /\ (Handling(c, "AddHandler") /\ Acts(c)) => pc'[c] = "SetNX"
         /\ (pc[c] = "SetNX" /\ Acts(c)) => AddClaimed(c)]_vars

\* the duration ADD is to pass on for the expiration raw read at the clock
AddDuration(raw) ==
    IF raw = Zero THEN Zero
    ELSE IF Leq(raw, Wide(2592000)) THEN MulBase(raw)
    ELSE Minus(MulBase(raw), Clock)

\* C10 amended: an ADD whose expiration expirationParser turns into no
\* duration or into a duration of at least a second (0, a relative number
\* of seconds, an absolute time at least a second after the clock), and
\* whose backend call does not fail, reports STORED on an absent key, which
\* then holds the given value, and NOT_STORED on an existing key, which is
\* unchanged.  An ADD with a negative expiration, with a negative duration
\* (an absolute time before the clock) or with a failing backend call
\* returns an error and changes nothing.
C10_AddStoresOnlyIfAbsent ==
    [][\A c \in Conns :
         /\ (Handling(c, "AddHandler") /\ Acts(c)) =>
              /\ store' = store
              /\ IF Less(req[c].Exptime, Zero)
                 THEN /\ pc'[c] = "Responding"
                      /\ herr'[c] # ""
                      /\ res'[c].Response = ""
                 ELSE /\ pc'[c] = "SetNX"
                      /\ exp'[c].secs = AddDuration(req[c].Exptime)
         /\ (pc[c] = "SetNX" /\ Acts(c)) =>
              LET d == exp[c].secs
                  failed == Logs(c) /\ LastCall(c).err = ErrBackend
              IN  /\ pc'[c] = "Responding"
                  /\ Logs(c)
                  /\ LastCall(c).dur = d
                  /\ (Less(d, Zero) \/ failed) =>
                       /\ herr'[c] # ""
                       /\ res'[c].Response = ""
                       /\ store' = store
                  /\ ((d = Zero \/ Leq(Second, d)) /\ ~failed) =>
                       AddClaimed(c)]_vars

\* an ADD on an existing key returned NOT_STORED and the old value is there
C10_Witness ==
    /\ Returned(1, "AddHandler")
    /\ res[1].Response = "NOT_STORED"
    /\ store[req[1].Key].has
    /\ store[req[1].Key].val # req[1].Value

\* DELETE as the claim states it
DeleteClaimed(c) ==
    /\ res'[c].Response =
         (IF store[req[c].Key].has THEN "DELETED" ELSE "NOT_FOUND")
    /\ herr'[c] = ""
    /\ store' = [store EXCEPT ![req[c].Key] = Absent]

\* C11 as stated: every DELETE of K reports DELETED exactly when K was in
\* the backend and NOT_FOUND without error when it was not, and K is absent
\* afterwards with every other key unchanged.
C11_DeleteAsStated ==
    [][\A c \in Conns :
         (Handling(c, "DeleteHandler") /\ Acts(c)) => DeleteClaimed(c)]_vars

\* C11 amended: a DELETE of K whose backend call does not fail reports
\* DELETED exactly when K was in the backend and NOT_FOUND without error when
\* it was not; K is absent afterwards and every other key is unchanged.  A
\* DELETE whose backend call fails returns that error and changes nothing.
C11_DeleteReportsRemoval ==
    [][\A c \in Conns :
         /\ (Handling(c, "DeleteHandler") /\ Acts(c)) =>
              /\ pc'[c] = "Responding"
              /\ Logs(c)
              /\ LastCall(c).err # "" =>
                   /\ herr'[c] = LastCall(c).err
                   /\ res'[c].Response = ""
                   /\ store' = store
              /\ LastCall(c).err = "" => DeleteClaimed(c)
         /\ (Returned(c, "DeleteHandler") /\ herr[c] = "" /\ Acts(c)) =>
              /\ store' = store
              /\ Answers(c, res[c].Response)]_vars

\* a DELETE removed an existing key and left the other key in place
C11_Witness ==
    /\ Returned(1, "DeleteHandler")
    /\ res[1].Response = "DELETED"
    /\ herr[1] = ""
    /\ ~store[req[1].Key].has
    /\ \E k \in Keys \ {req[1].Key} : store[k].has

\* the amount a counting step of c adds to the stored number
Amount(c) ==
    IF pc[c] = "IncrBy" THEN req[c].Increment ELSE 0 - req[c].Increment

\* the decimal string of the stored number of key k plus n
Counted(k, n) == ToString(ParseInt(store[k].val) + n)

\* the existence check of INCR and DECR on an existing key goes on to count
CountExistsStep(c, ok) ==
    ((Handling(c, "IncrHandler") \/ Handling(c, "DecrHandler"))
       /\ store[req[c].Key].has /\ Acts(c) /\ ok) =>
        /\ pc'[c] = (IF methods[Cmd(c)] = "IncrHandler"
                     THEN "IncrBy" ELSE "DecrBy")
        /\ store' = store

\* the count on an existing number: the new number is answered and stored
CountStep(c, ok) ==
    (pc[c] \in {"IncrBy", "DecrBy"} /\ Acts(c)
       /\ store[req[c].Key].has /\ IsInt(store[req[c].Key].val) /\ ok) =>
        /\ pc'[c] = "Responding"
        /\ herr'[c] = ""
        /\ res'[c].Response = Counted(req[c].Key, Amount(c))
        /\ store' = [store EXCEPT ![req[c].Key].val =
                       Counted(req[c].Key, Amount(c))]

\* C12 as stated: every INCR by n that counts on an existing number v
\* answers v + n and every DECR answers v - n, and the key then holds it.
C12_CountAsStated ==
    [][\A c \in Conns : CountStep(c, TRUE)]_vars

\* C12 amended: an INCR or DECR whose existence check succeeds on an
\* existing key goes on to count; when it counts by n on a key that holds
\* the number v, the backend call does not fail and v + n (v - n) is an
\* integer of the backend, the response is v + n (v - n) in decimal, that
\* string is what the key holds afterwards, with its expiry and every other
\* key unchanged, and a GET then returns the string the key holds.  A count
\* that fails, or whose result is out of range, returns the error and
\* changes nothing.
C12_CountAnswersNewValue ==
    [][\A c \in Conns :
         /\ CountExistsStep(c, Logs(c) /\ LastCall(c).err = "")
         /\ CountStep(c, /\ Logs(c)
                         /\ LastCall(c).err # ErrBackend
                         /\ IsInt(Counted(req[c].Key, Amount(c))))
         /\ (pc[c] \in {"IncrBy", "DecrBy"} /\ Acts(c)) =>
              /\ pc'[c] = "Responding"
              /\ Logs(c)
              /\ (LastCall(c).err = ErrBackend
                    \/ (/\ store[req[c].Key].has
                        /\ IsInt(store[req[c].Key].val)
                        /\ ~IsInt(Counted(req[c].Key, Amount(c))))) =>
                   /\ herr'[c] # ""
                   /\ res'[c].Response = ""
                   /\ store' = store
         /\ ((Returned(c, "IncrHandler") \/ Returned(c, "DecrHandler"))
               /\ herr[c] = "" /\ Acts(c)) =>
              /\ store' = store
              /\ Answers(c, res[c].Response)
         /\ (Handling(c, "GetHandler") /\ Logs(c) /\ LastCall(c).err = "") =>
              /\ store' = store
              /\ res'[c].Values =
                   res[c].Values \o Found(<<LastCall(c).key>>, store)]_vars

\* after INCR of "5" by 5 was answered, the next request, a GET, returns "10"
C12_Witness ==
    /\ Returned(1, "GetHandler")
    /\ nread[1] = 2
    /\ out[1] = <<1>>
    /\ store["k1"].val = "10"
    /\ res[1].Values = <<McValue("k1", "0", "10")>>

\* ReadRequest of c returns a request in this step
Decodes(c) == pc[c] = "Reading" /\ req'[c] # req[c]

QuitStep(c) ==
    /\ (Decodes(c) /\ req'[c].Command \in QuitCmds) =>
         /\ pc'[c] = "Closed"
         /\ closes'[c] = closes[c] + 1
         /\ ret'[c] = "nil"
         /\ out'[c] = out[c]
         /\ wire'[c].Response = ""
         /\ blog'[c] = <<>>
         /\ store' = store
    /\ pc[c] = "Closed" =>
         /\ pc'[c] = "Closed"
         /\ nread'[c] = nread[c]
         /\ req'[c] = req[c]
         /\ out'[c] = out[c]
         /\ wire'[c] = wire[c]
         /\ blog'[c] = blog[c]

\* C13: a decoded request whose command is "quit" in any letter case ends
\* the loop and closes the connection: nothing is written for it, no handler
\* and no backend call runs for it, and no request is read or processed on
\* the connection afterwards.
C13_QuitEndsServe ==
    /\ [](\A c \in Conns :
            pc[c] \in ServingPcs => req[c].Command \notin QuitCmds)
    /\ [][\A c \in Conns : QuitStep(c)]_vars

\* "Quit" came as the second request: the first was answered, then closed
C13_Witness ==
    /\ pc[1] = "Closed"
    /\ req[1].Command = <<"Q","u","i","t">>
    /\ nread[1] = 2
    /\ out[1] = <<1>>
    /\ closes[1] = 1

\* the three ways Serve returns, each from ReadRequest
ClosingEvent(c) ==
    /\ pc[c] = "Reading"
    /\ closes'[c] = closes[c] + 1
    /\ \/ /\ ret'[c] = "nil"                    \* end of stream
          /\ nread'[c] = nread[c]
          /\ req'[c] = req[c]
       \/ /\ ret'[c] = "nil"                    \* quit
          /\ Decodes(c)
          /\ req'[c].Command \in QuitCmds
       \/ /\ ret'[c] = "error"                  \* any other decode error
          /\ nread'[c] = nread[c]
          /\ req'[c] = req[c]

StaysOpenStep(c) ==
    /\ (pc[c] # "Closed" /\ pc'[c] = "Closed") => ClosingEvent(c)
    \* a protocol decode error: CLIENT_ERROR, then reading again
    /\ (pc[c] = "Reading" /\ nread'[c] = nread[c] + 1 /\ req'[c] = req[c]) =>
         /\ pc'[c] = "Reading"
         /\ closes'[c] = 0
         /\ out'[c] = Append(out[c], nread'[c])
         /\ wire'[c] = [Response |-> "CLIENT_ERROR " \o ErrProtocol,
                        Values |-> <<>>]
         /\ store' = store
    \* a handler error: SERVER_ERROR unless no-reply, then reading again
    /\ (pc[c] = "Responding" /\ herr[c] # "" /\ Acts(c)) =>
         /\ pc'[c] = "Reading"
         /\ closes'[c] = 0
         /\ Answers(c, "SERVER_ERROR " \o herr[c])
         /\ ~req[c].Noreply => out'[c] = Append(out[c], nread[c])
    \* an unknown command: reading again
    /\ (Unknown(c) /\ Acts(c)) =>
         /\ pc'[c] = "Reading"
         /\ closes'[c] = 0

\* C14: after a protocol decode error (answered CLIENT_ERROR), a handler
\* error (answered SERVER_ERROR) and an unknown command the connection is
\* open and Serve is reading again; a connection becomes Closed only by an
\* end of stream, a quit command or a decode error that is no protocol error.
C14_OpenAfterRecoverableErrors ==
    /\ [](\A c \in Conns : pc[c] = "Reading" => closes[c] = 0)
    /\ [][\A c \in Conns : StaysOpenStep(c)]_vars

\* the first request was answered, the second failed in its handler and was
\* answered SERVER_ERROR, and Serve reads again
C14_Witness ==
    /\ pc[1] = "Reading"
    /\ ret[1] = "running"
    /\ closes[1] = 0
    /\ nread[1] = 2
    /\ out[1] = <<1, 2>>
    /\ wire[1].Response = "SERVER_ERROR " \o ErrNegative

\* the request of c is decoded and not yet answered
InHandler(c) == pc[c] \in ServingPcs

InOrder(c) ==
    \* the written responses: of requests read, each once, in their order
    /\ \A i \in DOMAIN out[c] : out[c][i] \in 1..nread[c]
    /\ \A i, j \in DOMAIN out[c] : i < j => out[c][i] < out[c][j]
    \* the request in hand is the one read last and has no response yet
    /\ InHandler(c) =>
         /\ nread[c] > 0
         /\ req[c] # NoRequest
         /\ \A i \in DOMAIN out[c] : out[c][i] < nread[c]
    \* nothing of a request is left when the next one is awaited
    /\ pc[c] = "Reading" =>
         /\ req[c] = NoRequest
         /\ res[c] = McResponse
         /\ herr[c] = ""
         /\ blog[c] = <<>>

OneAtATimeStep(c) ==
    \* a request is decoded only when the one before is done with
    /\ nread'[c] # nread[c] =>
         /\ pc[c] = "Reading"
         /\ nread'[c] = nread[c] + 1
    \* a response is written once, for the request read last
    /\ out'[c] # out[c] =>
         /\ out'[c] = Append(out[c], nread'[c])
         /\ pc'[c] = "Reading"
    \* the answer or its suppression ends the handling of the request
    /\ (InHandler(c) /\ Acts(c)) =>
         /\ nread'[c] = nread[c]
         /\ req'[c] \in {req[c], NoRequest}
         /\ pc'[c] = "Reading" <=>
              (pc[c] = "Responding" \/ Cmd(c) \notin DOMAIN methods)
         /\ pc'[c] = "Reading" =>
              (out'[c] = out[c] <=> req[c].Noreply /\ pc[c] = "Responding")

\* C15: on one connection request i+1 is not decoded before the handler of
\* request i has returned and its response is written or suppressed; a
\* request gets at most one written response; the written responses are in
\* the order of their requests.
C15_OneRequestAtATime ==
    /\ [](\A c \in Conns : InOrder(c))
    /\ [][\A c \in Conns : OneAtATimeStep(c)]_vars

\* the first request had its response suppressed, the second was answered
C15_Witness ==
    /\ pc[1] = "Reading"
    /\ nread[1] = 2
    /\ out[1] = <<2>>
    /\ wire[1].Response # ""

\* C16: a SET of K with an absolute expiration at or before the clock
\* never writes the request's value: it makes one expire call with the
\* duration, which is not positive, any entry under K is gone afterwards,
\* every other key is as it was, and the response is STORED with no error.
C16_SetInPastRemovesEntry ==
    [][\A c \in Conns :
         /\ (Handling(c, "SetHandler")
               /\ Less(Wide(2592000), req[c].Exptime)
               /\ Leq(MulBase(req[c].Exptime), Clock) /\ Acts(c)) =>
              /\ pc'[c] = "Expire"
              /\ Leq(exp'[c].secs, Zero)
              /\ store' = store
         /\ (pc[c] = "Expire" /\ Acts(c)) =>
              /\ pc'[c] = "Responding"
              /\ res'[c].Response = "STORED"
              /\ herr'[c] = ""
              /\ Logs(c)
              /\ LastCall(c).op = "Expire"
              /\ LastCall(c).dur = exp[c].secs
              /\ store' = [store EXCEPT ![req[c].Key] = Absent]]_vars

\* C17: every duration a handler passes to a backend call that writes a
\* value (Set in SET, SetNX in ADD) is at least 0, whatever expiration the
\* request carries.
C17_WrittenDurationsNonNegative ==
    \A c \in Conns :
        \A i \in DOMAIN blog[c] :
            blog[c][i].op \in {"Set", "SetNX"} => Leq(Zero, blog[c][i].dur)

\* GET fetches its keys in order, one call each, and stops at a failure
GetAborted(c) ==
    /\ (pc[c] \in {"Dispatching", "Responding"}
          /\ Cmd(c) \in DOMAIN methods /\ methods[Cmd(c)] = "GetHandler") =>
         /\ Len(blog[c]) <= Len(req[c].Keys)
         /\ \A i \in DOMAIN blog[c] :
              /\ blog[c][i].op = "Get"
              /\ blog[c][i].key = req[c].Keys[i]
              /\ blog[c][i].err # "" =>
                   /\ i = Len(blog[c])
                   /\ pc[c] = "Responding"
                   /\ herr[c] = blog[c][i].err
                   /\ res[c].Response = ""
         /\ Len(res[c].Values) <= Len(blog[c])

GetFailStep(c) ==
    /\ (Handling(c, "GetHandler") /\ Logs(c) /\ LastCall(c).err # "") =>
         /\ pc'[c] = "Responding"
         /\ herr'[c] = LastCall(c).err
         /\ res'[c] = res[c]
         /\ store' = store
    /\ (Returned(c, "GetHandler") /\ herr[c] # "" /\ Acts(c)) =>
         /\ blog'[c] = <<>>
         /\ store' = store
         /\ Answers(c, "SERVER_ERROR " \o herr[c])

\* C18: when the backend fails on the i-th key of a GET, no later key is
\* fetched, the entries appended for the earlier keys stay in the response,
\* the handler returns the error, and the status line written is the
\* SERVER_ERROR line and not END.
C18_GetAbortsOnBackendFailure ==
    /\ [](\A c \in Conns : GetAborted(c))
    /\ [][\A c \in Conns : GetFailStep(c)]_vars

\* the second of two keys failed after the first was appended
C18_Witness ==
    /\ Returned(1, "GetHandler")
    /\ req[1].Keys = <<"k2", "k1">>
    /\ Len(blog[1]) = 2
    /\ herr[1] = ErrBackend
    /\ res[1] = [Response |-> "",
                 Values |-> <<McValue("k2", "0", "5")>>]

\* every connection sent an ADD of k1 as its first request, each ADD has
\* returned and none is answered yet; k1 was absent at the start ("5" is
\* what the start may hold, never what an ADD stores)
AllAdded ==
    /\ \A c \in Conns :
         /\ Returned(c, "AddHandler")
         /\ nread[c] = 1
         /\ req[c].Key = "k1"
    /\ store["k1"].val # "5"

\* connection w stored and every other connection in O was refused
OneStored(w, O) ==
    /\ res[w].Response = "STORED"
    /\ herr[w] = ""
    /\ \A o \in O \ {w} : res[o].Response = "NOT_STORED" /\ herr[o] = ""
    /\ store["k1"].has
    /\ store["k1"].val = req[w].Value

\* C19 as stated: of the concurrent ADDs of one absent key exactly one
\* reports STORED, all others report NOT_STORED, and the key holds the value
\* of the one that reported STORED.
C19_AddRaceAsStated ==
    AllAdded => \E w \in Conns : OneStored(w, Conns)

\* the connections whose set-if-absent call the backend carried out
Carried == {c \in Conns : blog[c] # <<>> /\ blog[c][1].err = ""}

\* C19 amended: among the concurrent ADDs of one absent key whose
\* set-if-absent the backend carries out without error, and while the entry
\* stored by the first has not expired (none does within a second of the
\* first reading of the clock), exactly one reports STORED, the others
\* report NOT_STORED, and the key holds the value of the one that reported
\* STORED; an ADD whose call fails returns the error and stores nothing.
C19_AddRaceOneStored ==
    (AllAdded /\ (Leq(Mstime, MulBase(Wide(Now0 + 1)))
                    \/ \A c \in Conns : req[c].Exptime = Zero)) =>
        /\ \A c \in Conns \ Carried :
             /\ herr[c] # ""
             /\ res[c].Response = ""
        /\ Carried # {} => \E w \in Carried : OneStored(w, Carried)
        /\ Carried = {} => ~store["k1"].has

\* two ADDs of the absent k1 with different values: the second connection
\* stored, the first was refused
C19_Witness ==
    /\ AllAdded
    /\ Carried = Conns
    /\ req[1].Value # req[2].Value
    /\ res[1].Response = "NOT_STORED"
    /\ OneStored(2, Conns)

\* nothing happens on a closed connection
ClosedStays(c) ==
    pc[c] = "Closed" =>
        /\ pc'[c] = "Closed"
        /\ nread'[c] = nread[c]
        /\ req'[c] = req[c]
        /\ res'[c] = res[c]
        /\ blog'[c] = blog[c]
        /\ out'[c] = out[c]
        /\ wire'[c] = wire[c]
        /\ closes'[c] = closes[c]
        /\ ret'[c] = ret[c]

\* C20: when every backend call returns and the stream of a connection
\* ends (end of stream, quit or a fatal decode error), Serve of that
\* connection reaches Closed, whatever protocol errors, handler errors and
\* unknown commands come before; from Closed on no request is decoded or
\* dispatched and nothing is written on the connection.
C20_ServeReachesClosed ==
    /\ \A c \in LiveConns : <>(pc[c] = "Closed")
    /\ [][\A c \in Conns : ClosedStays(c)]_vars

\* Serve returned at the end of a stream whose last request was malformed
\* and answered CLIENT_ERROR, after an earlier answered request
C20_Witness ==
    /\ pc[1] = "Closed"
    /\ ret[1] = "nil"
    /\ nread[1] = 2
    /\ out[1] = <<1, 2>>
    /\ wire[1].Response = "CLIENT_ERROR " \o ErrProtocol

====
